---- MODULE Spec2Model ----
(***************************************************************************)
(* Model of the vecsum2 micro-benchmark (src/micro/vecsum2.c).             *)
(*                                                                         *)
(* The program is one sequential main(); the model takes one step per      *)
(* interaction with its environment (libhdfs, libc, the kernel), with the  *)
(* outcome of that interaction drawn from the outcomes its documentation   *)
(* allows.  The variable log records these interactions in program order.  *)
(*                                                                         *)
(* Byte counts that are 64 bits wide in the program (long long, size_t,    *)
(* off_t) are pairs <<q, r>> standing for q * VECSUM_CHUNK_SIZE + r with   *)
(* 0 <= r < VECSUM_CHUNK_SIZE; 32-bit quantities are plain integers.       *)
(***************************************************************************)
EXTENDS Integers, Sequences, FiniteSets

(***************************************************************************)
(* Program constants.                                                      *)
(***************************************************************************)
VECSUM_CHUNK_SIZE == 8 * 1024 * 1024
ZCR_READ_CHUNK_SIZE == 1024 * 1024 * 8
NORMAL_READ_CHUNK_SIZE == 8 * 1024 * 1024
DOUBLES_PER_LOOP_ITER == 16
SizeofDouble == 8

VECSUM_LIBHDFS == 0
VECSUM_ZCR == 1
VECSUM_LOCAL == 2

\* errno values the program returns or tests
EINTR == 4
EIO == 5
ENOMEM == 12
EINVAL == 22

(***************************************************************************)
(* Bounds of the model.                                                    *)
(***************************************************************************)
\* largest valid pass count offered in VECSUM_PASSES
MaxPasses == 2
\* largest target, in chunks, read through libhdfs
MaxChunks == 2
\* reads of one run that fail with EINTR or return less than was asked and available
MaxGlitches == 1
\* a target of 32 GiB + 8 MiB, in chunks (read with the local strategy only)
BigChunks == 4097

(***************************************************************************)
(* C strings are sequences of characters; a char* is a record that is      *)
(* either NULL or points to a string.                                      *)
(***************************************************************************)
NULLSTR == [isNull |-> TRUE, str |-> <<>>]

Str(s) == [isNull |-> FALSE, str |-> s]

Digits == <<"0", "1", "2", "3", "4", "5", "6", "7", "8", "9">>

\* isdigit() and the value of a digit
IsDigit(c) == \E i \in 1..10 : Digits[i] = c

DigitVal(c) == (CHOOSE i \in 1..10 : Digits[i] = c) - 1

IsSpace(c) == c = " "

Upper == <<"A", "B", "C", "D", "F", "H", "I", "L", "O", "R", "S", "Z">>

Lower == <<"a", "b", "c", "d", "f", "h", "i", "l", "o", "r", "s", "z">>

\* tolower()
ToLower(c) ==
  IF \E i \in 1..Len(Upper) : Upper[i] = c
  THEN Lower[CHOOSE i \in 1..Len(Upper) : Upper[i] = c]
  ELSE c

\* strcasecmp(a, b) == 0
strcasecmp_eq(a, b) ==
  /\ Len(a) = Len(b)
  /\ \A i \in 1..Len(a) : ToLower(a[i]) = ToLower(b[i])

RECURSIVE AtoiDigits(_, _)
\* the digit-accumulating loop of atoi(): stops at the first non-digit
AtoiDigits(s, acc) ==
  IF s = <<>> \/ ~IsDigit(Head(s)) THEN acc
  ELSE AtoiDigits(Tail(s), acc * 10 + DigitVal(Head(s)))

RECURSIVE SkipSpace(_)
SkipSpace(s) == IF s # <<>> /\ IsSpace(Head(s)) THEN SkipSpace(Tail(s)) ELSE s

\* atoi(): leading white space, an optional sign, then decimal digits
atoi(s) ==
  LET t == SkipSpace(s)
  IN  IF t # <<>> /\ Head(t) = "-" THEN 0 - AtoiDigits(Tail(t), 0)
      ELSE IF t # <<>> /\ Head(t) = "+" THEN AtoiDigits(Tail(t), 0)
      ELSE AtoiDigits(t, 0)

parse_vecsum_type(str) ==
  IF strcasecmp_eq(str, <<"l", "i", "b", "h", "d", "f", "s">>) THEN VECSUM_LIBHDFS
  ELSE IF strcasecmp_eq(str, <<"z", "c", "r">>) THEN VECSUM_ZCR
  ELSE IF strcasecmp_eq(str, <<"l", "o", "c", "a", "l">>) THEN VECSUM_LOCAL
  ELSE -1

(***************************************************************************)
(* 64-bit byte counts as pairs <<q, r>>.                                   *)
(***************************************************************************)
W(q, r) == <<q, r>>

\* a 32-bit byte count as a 64-bit one
WOfInt(n) == <<n \div VECSUM_CHUNK_SIZE, n % VECSUM_CHUNK_SIZE>>

\* a small 64-bit byte count as a plain integer
WBytes(w) == w[1] * VECSUM_CHUNK_SIZE + w[2]

\* w * n for an int n >= 0
WMul(w, n) ==
  <<w[1] * n + ((w[2] * n) \div VECSUM_CHUNK_SIZE), (w[2] * n) % VECSUM_CHUNK_SIZE>>

\* a number of doubles as a 64-bit byte count
WOfDoubles(d) ==
  LET perChunk == VECSUM_CHUNK_SIZE \div SizeofDouble
  IN  <<d \div perChunk, (d % perChunk) * SizeofDouble>>

(***************************************************************************)
(* State.                                                                  *)
(***************************************************************************)
VARIABLES
  env,        \* the environment variables main() reads with getenv()
  mSize,      \* the size of the target when the run looks it up
  pc,         \* the call of main() that comes next
  opts,       \* struct options *opts of main()
  tdata,      \* struct test_data *tdata of main()
  watch,      \* struct stopwatch *watch of main()
  ret,        \* int ret of main(); the exit status once pc = "exited"
  errno,      \* errno
  fpos,       \* the position of the HDFS stream tdata->file, in bytes
  rf,         \* the locals of the hdfsReadFully call in progress
  pass,       \* int pass of the running vecsum_* function
  sum,        \* double sum of the running pass
  lv,         \* the locals of vecsum_local
  zopts,      \* struct hadoopRzOptions *zopts of vecsum_zcr is allocated
  heapOK,     \* no write has landed before the start of tdata->buf
  glitches,   \* EINTR failures and short reads so far (bounded)
  cur,        \* what the running pass has handed to vecsum() so far
  log,        \* the calls made so far, in order, each with its outcome
  errs,       \* the diagnostics written to stderr, in order
  passLines,  \* the "finished ... pass" lines written to stdout
  report,     \* the byte totals of the "stopwatch:" reports written to stdout
  reader,     \* the fields of a ByteBufferRecordReader
  hadoop      \* what the record reader works on: stream, buffer pool, task counters

\* the variables of a run of vecsum2
vecsumVars ==
  <<env, mSize, pc, opts, tdata, watch, ret, errno, fpos, rf, pass, sum, lv, zopts,
    heapOK, glitches, cur, log, errs, passLines, report>>

vars == <<vecsumVars, reader, hadoop>>

\* a ReadStatistics with every total at 0, and the task's counters at 0
NoStats == [total |-> 0, local |-> 0, scr |-> 0, zcr |-> 0]

\* a ByteBufferRecordReader after its constructor.  value: 0 for no buffer, -1 for a
\* wrapped byte[], k > 0 for the k-th buffer the pool has handed out.  last: how the
\* last call of a method ended
NoReader ==
  [start |-> 0, end |-> 0, pos |-> 0, inputStream |-> "null", isCompressedInput |-> FALSE,
   decompressor |-> FALSE, value |-> 0, readStats |-> NoStats, last |-> "new"]

\* the file the reader is to read and the task it runs in.  flen: the length of the
\* stream; spos: its position; isDfs: it wraps a DFSInputStream; stats: that
\* stream's ReadStatistics; counters: the READ_COUNTER counters of the task;
\* handed: how many buffers the pool has handed out; out: those not given back;
\* released: the buffers given back, in order; delta: what the last updateStats
\* added to the counters; asked: the end of the range the last read asked for
NoHadoop ==
  [flen |-> 0, spos |-> 0, isDfs |-> FALSE, isOpen |-> FALSE, stats |-> NoStats,
   counters |-> NoStats, handed |-> 0, out |-> {}, released |-> <<>>,
   delta |-> NoStats, asked |-> 0]

NoOpts ==
  [isNull |-> TRUE, path |-> NULLSTR, passes |-> 0, ty |-> 0, rpc_address |-> NULLSTR]

NoTdata ==
  [isNull |-> TRUE, fs |-> FALSE, file |-> FALSE, length |-> <<0, 0>>, buf |-> FALSE]

NoLocal == [fd |-> FALSE, addr |-> FALSE, length |-> <<0, 0>>]

NoRead == [nread |-> 0, length |-> 0, buf |-> 0, start |-> 0, clean |-> TRUE]

NoCur == [doubles |-> 0, chunks |-> <<>>]

\* a call and its outcome; eintr: it failed with errno EINTR; n: the bytes a read
\* delivered, or the num_doubles vecsum() was given
Ev(op, ok) == [op |-> op, ok |-> ok, eintr |-> FALSE, n |-> 0]

EvEintr(op) == [op |-> op, ok |-> FALSE, eintr |-> TRUE, n |-> 0]

\* a read that delivered n bytes, or a vecsum() of n doubles
EvGot(op, n) == [op |-> op, ok |-> TRUE, eintr |-> FALSE, n |-> n]

(***************************************************************************)
(* The inputs of a run.                                                    *)
(***************************************************************************)
PathVals == {NULLSTR, Str(<<>>), Str(<<"f">>)}

PassVals ==
  {NULLSTR, Str(<<"0">>), Str(<<"-", "1">>), Str(<<"x">>), Str(<<" ", "1", "x">>)}
    \cup {Str(<<Digits[n + 1]>>) : n \in 1..MaxPasses}

TypeVals ==
  {NULLSTR,
   Str(<<"l", "i", "b", "h", "d", "f", "s">>),
   Str(<<"Z", "C", "R">>),
   Str(<<"L", "o", "c", "a", "l">>),
   Str(<<"h", "d", "f", "s">>)}

RpcVals == {NULLSTR, Str(<<"n">>)}

TargetSizes ==
  {W(q, r) : q \in 0..MaxChunks, r \in {0, 1}} \cup {W(BigChunks, 0)}

IsLocalType(s) == ~s.isNull /\ parse_vecsum_type(s.str) = VECSUM_LOCAL

Init ==
  /\ env \in [VECSUM_PATH : PathVals, VECSUM_PASSES : PassVals,
              VECSUM_TYPE : TypeVals, VECSUM_RPC_ADDRESS : RpcVals]
  /\ mSize \in TargetSizes
  /\ mSize[1] > MaxChunks => IsLocalType(env.VECSUM_TYPE)
  /\ ~env.VECSUM_RPC_ADDRESS.isNull => mSize = W(1, 0)
  /\ pc = "main"
  /\ opts = NoOpts
  /\ tdata = NoTdata
  /\ watch = "null"
  /\ ret = 1
  /\ errno = 0
  /\ fpos = 0
  /\ rf = NoRead
  /\ pass = 0
  /\ sum = 0
  /\ lv = NoLocal
  /\ zopts = FALSE
  /\ heapOK = TRUE
  /\ glitches = 0
  /\ cur = NoCur
  /\ log = <<>>
  /\ errs = <<>>
  /\ passLines = <<>>
  /\ report = <<>>
  /\ reader = NoReader
  /\ hadoop = NoHadoop

(***************************************************************************)
(* Start-up: check_byte_size, options_create, test_data_create,            *)
(* stopwatch_create.                                                       *)
(***************************************************************************)
check_byte_size(byte_size) ==
  IF byte_size % SizeofDouble # 0 THEN EINVAL
  ELSE IF (byte_size \div SizeofDouble) % DOUBLES_PER_LOOP_ITER # 0 THEN EINVAL
  ELSE 0

\* main() up to its call of options_create
main_check_byte_size ==
  /\ pc = "main"
  /\ pc' = IF \/ check_byte_size(VECSUM_CHUNK_SIZE) # 0
              \/ check_byte_size(ZCR_READ_CHUNK_SIZE) # 0
              \/ check_byte_size(NORMAL_READ_CHUNK_SIZE) # 0
           THEN "done" ELSE "options_create"
  /\ UNCHANGED <<env, mSize, opts, tdata, watch, ret, errno, fpos, rf, pass, sum, lv,
                 zopts, heapOK, glitches, cur, log, errs, passLines, report,
                 reader, hadoop>>

DefaultRpc == Str(<<"d", "e", "f", "a", "u", "l", "t">>)

\* options_create() after its calloc: the options, or NULL with the diagnostic
options_from_env(e) ==
  IF e.VECSUM_PATH.isNull
  THEN [opts |-> NoOpts, msg |-> "VECSUM_PATH is not set"]
  ELSE IF e.VECSUM_PASSES.isNull
  THEN [opts |-> NoOpts, msg |-> "VECSUM_PASSES is not set"]
  ELSE IF atoi(e.VECSUM_PASSES.str) <= 0
  THEN [opts |-> NoOpts, msg |-> "invalid VECSUM_PASSES"]
  ELSE IF e.VECSUM_TYPE.isNull
  THEN [opts |-> NoOpts, msg |-> "VECSUM_TYPE is not set"]
  ELSE IF parse_vecsum_type(e.VECSUM_TYPE.str) < 0
  THEN [opts |-> NoOpts, msg |-> "invalid VECSUM_TYPE"]
  ELSE [opts |-> [isNull |-> FALSE,
                  path |-> e.VECSUM_PATH,
                  passes |-> atoi(e.VECSUM_PASSES.str),
                  ty |-> parse_vecsum_type(e.VECSUM_TYPE.str),
                  rpc_address |-> IF e.VECSUM_RPC_ADDRESS.isNull
                                  THEN DefaultRpc ELSE e.VECSUM_RPC_ADDRESS],
        msg |-> ""]

\* options_create(), and main()'s test of its result
options_create ==
  /\ pc = "options_create"
  /\ \E calloc_ok \in BOOLEAN :
       LET r == IF calloc_ok THEN options_from_env(env)
                ELSE [opts |-> NoOpts, msg |-> "failed to calloc options"]
       IN  /\ opts' = r.opts
           /\ errs' = IF r.msg = "" THEN errs ELSE Append(errs, r.msg)
           /\ pc' = IF r.opts.isNull THEN "done"
                    ELSE IF r.opts.ty # VECSUM_LOCAL THEN "test_data_create"
                    ELSE "stopwatch_create"
  /\ UNCHANGED <<env, mSize, tdata, watch, ret, errno, fpos, rf, pass, sum, lv,
                 zopts, heapOK, glitches, cur, log, passLines, report,
                 reader, hadoop>>

\* test_data_free() without the close of tdata->file
test_data_free_leaks_file(t) ==
  IF t.fs
  THEN (IF t.buf THEN <<Ev("free", TRUE)>> ELSE <<>>) \o <<Ev("hdfsDisconnect", TRUE)>>
  ELSE <<>>

\* test_data_free(): the calls it makes, in order
test_data_free(t) ==
  IF t.fs
  THEN (IF t.buf THEN <<Ev("free", TRUE)>> ELSE <<>>)
         \o (IF t.file THEN <<Ev("hdfsCloseFile", TRUE)>> ELSE <<>>)
         \o <<Ev("hdfsDisconnect", TRUE)>>
  ELSE <<>>

\* a test of the size that lets every size through
unaligned_never(length) == FALSE

\* length % VECSUM_CHUNK_SIZE, nonzero
unaligned(length) == length[2] # 0

\* test_data_create(): calloc and hdfsNewBuilder
test_data_create ==
  /\ pc = "test_data_create"
  /\ \E outcome \in {"ok", "calloc fails", "hdfsNewBuilder fails"} :
       /\ pc' = IF outcome = "ok" THEN "hdfsBuilderConnect" ELSE "done"
       /\ tdata' = IF outcome = "ok" THEN [NoTdata EXCEPT !.isNull = FALSE] ELSE NoTdata
       /\ errs' = IF outcome = "ok" THEN errs
                  ELSE IF outcome = "calloc fails"
                  THEN Append(errs, "Failed to allocate test data")
                  ELSE Append(errs, "Failed to create builder")
  /\ UNCHANGED <<env, mSize, opts, watch, ret, errno, fpos, rf, pass, sum, lv,
                 zopts, heapOK, glitches, cur, log, passLines, report,
                 reader, hadoop>>

\* test_data_create(): hdfsBuilderConnect
hdfsBuilderConnect ==
  /\ pc = "hdfsBuilderConnect"
  /\ \E ok \in BOOLEAN :
       /\ log' = Append(log, Ev("hdfsBuilderConnect", ok))
       /\ tdata' = IF ok THEN [tdata EXCEPT !.fs = TRUE] ELSE NoTdata
       /\ errs' = IF ok THEN errs ELSE Append(errs, "Could not connect")
       /\ pc' = IF ok THEN "hdfsGetPathInfo" ELSE "done"
  /\ UNCHANGED <<env, mSize, opts, watch, ret, errno, fpos, rf, pass, sum, lv,
                 zopts, heapOK, glitches, cur, passLines, report,
                 reader, hadoop>>

\* test_data_create(): hdfsGetPathInfo and the two tests of the size
hdfsGetPathInfo ==
  /\ pc = "hdfsGetPathInfo"
  /\ \E found \in BOOLEAN :
       \* no file has the empty path
       LET ok == found /\ opts.path.str # <<>>
           t == [tdata EXCEPT !.length = mSize]
           bad == ~ok \/ mSize = W(0, 0) \/ unaligned(mSize)
       IN  /\ tdata' = IF bad THEN NoTdata ELSE t
           /\ errno' = IF ok THEN errno ELSE EIO
           /\ log' = IF ~ok
                     THEN Append(log, Ev("hdfsGetPathInfo", FALSE)) \o test_data_free(tdata)
                     ELSE IF bad
                     THEN Append(log, Ev("hdfsGetPathInfo", TRUE))
                            \o <<Ev("hdfsFreeFileInfo", TRUE)>> \o test_data_free(t)
                     ELSE Append(log, Ev("hdfsGetPathInfo", TRUE))
           /\ errs' = IF ~ok THEN Append(errs, "hdfsGetPathInfo failed")
                      ELSE IF mSize = W(0, 0) THEN Append(errs, "file has size 0")
                      ELSE IF unaligned(mSize) THEN Append(errs, "size is not aligned")
                      ELSE errs
           /\ pc' = IF bad THEN "done" ELSE "hdfsOpenFile"
  /\ UNCHANGED <<env, mSize, opts, watch, ret, fpos, rf, pass, sum, lv,
                 zopts, heapOK, glitches, cur, passLines, report,
                 reader, hadoop>>

\* test_data_create(): hdfsOpenFile, and main()'s test of the result
hdfsOpenFile ==
  /\ pc = "hdfsOpenFile"
  /\ \E ok \in BOOLEAN :
       /\ tdata' = IF ok THEN [tdata EXCEPT !.file = TRUE] ELSE NoTdata
       /\ errno' = IF ok THEN errno ELSE EIO
       /\ log' = IF ok THEN Append(log, Ev("hdfsOpenFile", TRUE))
                 ELSE Append(log, Ev("hdfsOpenFile", FALSE))
                        \o <<Ev("hdfsFreeFileInfo", TRUE)>> \o test_data_free(tdata)
       /\ errs' = IF ok THEN errs ELSE Append(errs, "hdfsOpenFile failed")
       /\ fpos' = 0
       /\ pc' = IF ok THEN "stopwatch_create" ELSE "done"
  /\ UNCHANGED <<env, mSize, opts, watch, ret, rf, pass, sum, lv,
                 zopts, heapOK, glitches, cur, passLines, report,
                 reader, hadoop>>

\* stopwatch_create(), and main()'s switch on opts->ty
stopwatch_create ==
  /\ pc = "stopwatch_create"
  /\ \E ok \in BOOLEAN :
       /\ watch' = IF ok THEN "running" ELSE "null"
       /\ log' = Append(log, Ev("stopwatch_create", ok))
       /\ errs' = IF ok THEN errs ELSE Append(errs, "stopwatch_create failed")
       /\ pc' = IF ~ok THEN "done"
                ELSE IF opts.ty = VECSUM_LIBHDFS THEN "vecsum_libhdfs"
                ELSE IF opts.ty = VECSUM_ZCR THEN "vecsum_zcr"
                ELSE "vecsum_local"
  /\ UNCHANGED <<env, mSize, opts, tdata, ret, errno, fpos, rf, pass, sum, lv,
                 zopts, heapOK, glitches, cur, passLines, report,
                 reader, hadoop>>

(***************************************************************************)
(* The reducer.  The target's content is fixed: the first double of chunk  *)
(* i is i + 1 and every other double is 0, so a sum tells which chunks it  *)
(* covers.                                                                 *)
(***************************************************************************)
DoublesPerChunk == VECSUM_CHUNK_SIZE \div SizeofDouble

RECURSIVE SumChunks(_, _)
\* the sum of the doubles of chunks first .. first + k - 1
SumChunks(first, k) ==
  IF k <= 0 THEN 0 ELSE (first + 1) + SumChunks(first + 1, k - 1)

\* the chunks first .. first + k - 1
ChunkSeq(first, k) == [i \in 1..k |-> first + i - 1]

\* vecsum(): the doubles its loop loads, DOUBLES_PER_LOOP_ITER per iteration
vecsum_loads(num_doubles) ==
  IF num_doubles <= 0 THEN 0
  ELSE DOUBLES_PER_LOOP_ITER
         * ((num_doubles + DOUBLES_PER_LOOP_ITER - 1) \div DOUBLES_PER_LOOP_ITER)

\* the chunks whose first double is among the first n doubles
ChunksIn(n) == (n + DoublesPerChunk - 1) \div DoublesPerChunk

\* vecsum(opts, buf, num_doubles).  buf.good: the buffer holds the target from the
\* start of chunk buf.chunk on; otherwise its doubles add up to buf.junk
vecsum(buf, num_doubles) ==
  IF buf.good THEN SumChunks(buf.chunk, ChunksIn(vecsum_loads(num_doubles)))
  ELSE buf.junk

\* what one call of vecsum adds to the record of the pass
Reduced(c, buf, num_doubles) ==
  [doubles |-> c.doubles + vecsum_loads(num_doubles),
   chunks |-> c.chunks \o (IF buf.good
                           THEN ChunkSeq(buf.chunk, ChunksIn(vecsum_loads(num_doubles)))
                           ELSE <<-1>>)]

\* the sums a buffer of misplaced bytes may add up to
JunkSums == {0, 7}

(***************************************************************************)
(* The variables a strategy changes, as one record.                        *)
(***************************************************************************)
Run ==
  [pc |-> pc, ret |-> ret, errno |-> errno, fpos |-> fpos, rf |-> rf, pass |-> pass,
   sum |-> sum, zopts |-> zopts, heapOK |-> heapOK, glitches |-> glitches,
   cur |-> cur, log |-> log, errs |-> errs, passLines |-> passLines, tdata |-> tdata,
   opts |-> opts, watch |-> watch, lv |-> lv, report |-> report]

Become(s) ==
  /\ pc' = s.pc
  /\ ret' = s.ret
  /\ errno' = s.errno
  /\ fpos' = s.fpos
  /\ rf' = s.rf
  /\ pass' = s.pass
  /\ sum' = s.sum
  /\ zopts' = s.zopts
  /\ heapOK' = s.heapOK
  /\ glitches' = s.glitches
  /\ cur' = s.cur
  /\ log' = s.log
  /\ errs' = s.errs
  /\ passLines' = s.passLines
  /\ tdata' = s.tdata
  /\ opts' = s.opts
  /\ watch' = s.watch
  /\ lv' = s.lv
  /\ report' = s.report
  /\ UNCHANGED <<env, mSize, reader, hadoop>>

Logged(s, op, ok) == [s EXCEPT !.log = Append(@, Ev(op, ok))]

Said(s, msg) == [s EXCEPT !.errs = Append(@, msg)]

\* main(): the strategy has returned r
main_after_vecsum(s, r) ==
  [(IF r # 0 THEN Said(s, "vecsum failed") ELSE s) EXCEPT !.ret = r, !.pc = "done"]

\* the printf that ends a pass
finished_pass(s) ==
  [s EXCEPT !.passLines = Append(@, [pass |-> s.pass, sum |-> s.sum,
                                     doubles |-> s.cur.doubles, chunks |-> s.cur.chunks])]

(***************************************************************************)
(* The libhdfs strategy: vecsum_libhdfs, vecsum_normal_loop, hdfsReadFully.*)
(***************************************************************************)
\* the locals of hdfsReadFully(fs, f, tdata->buf, NORMAL_READ_CHUNK_SIZE) at its start
StartReadFully(pos) ==
  [nread |-> 0, length |-> NORMAL_READ_CHUNK_SIZE, buf |-> 0, start |-> pos,
   clean |-> TRUE]

\* vecsum_normal_loop() begins pass s.pass
start_normal_loop(s) ==
  [s EXCEPT !.sum = 0, !.cur = NoCur, !.rf = StartReadFully(s.fpos), !.pc = "hdfsRead"]

\* vecsum_libhdfs(): vecsum_normal_loop has returned r # 0
libhdfs_failed(s, r) == main_after_vecsum(Said(s, "vecsum_normal_loop failed"), r)

\* vecsum_normal_loop(): hdfsReadFully has returned res into a buffer filled as r says
normal_loop_after(s, r, res, junk) ==
  LET buf == [good |-> r.clean /\ r.start % NORMAL_READ_CHUNK_SIZE = 0,
              chunk |-> r.start \div NORMAL_READ_CHUNK_SIZE, junk |-> junk]
      n == NORMAL_READ_CHUNK_SIZE \div SizeofDouble
  IN  IF res = 0 THEN [finished_pass(s) EXCEPT !.pc = "hdfsSeek"]
      ELSE IF res < 0 THEN libhdfs_failed(Said(s, "hdfsRead failed"), s.errno)
      ELSE IF res < NORMAL_READ_CHUNK_SIZE
      THEN libhdfs_failed(Said(s, "hdfsRead got a partial read"), EINVAL)
      ELSE [s EXCEPT
              !.log = Append(@, EvGot("vecsum", n)),
              !.sum = @ + vecsum(buf, n),
              !.cur = Reduced(@, buf, n),
              !.rf = StartReadFully(s.fpos),
              !.pc = "hdfsRead"]

\* vecsum_libhdfs(): malloc of the read buffer
vecsum_libhdfs ==
  /\ pc = "vecsum_libhdfs"
  /\ \E ok \in BOOLEAN :
       Become(IF ok
              THEN start_normal_loop([Logged(Run, "malloc", TRUE) EXCEPT
                                        !.tdata.buf = TRUE, !.pass = 0])
              ELSE main_after_vecsum(Said(Logged(Run, "malloc", FALSE),
                                          "failed to malloc buffer"), ENOMEM))

\* the byte counts hdfsRead or hadoopReadZero may deliver when asked for want bytes
\* with avail bytes left before the end of the file
ReadSizes(want, avail) ==
  LET most == IF want < avail THEN want ELSE avail
  IN  IF avail = 0 THEN {0}
      ELSE {most} \cup IF glitches < MaxGlitches
                       THEN {n \in {1, VECSUM_CHUNK_SIZE \div 2} : n < most}
                       ELSE {}

\* the bytes left between the HDFS stream's position and the end of the file
Avail == WBytes(mSize) - fpos

\* hdfsReadFully(): the loop body after hdfsRead has returned n >= 0
read_fully_got(r, n) ==
  IF n = 0 THEN r
  ELSE [r EXCEPT !.nread = @ + n, !.length = @ - n, !.buf = @ + n]

\* hdfsReadFully(): the loop body after hdfsRead has returned -1 with errno EINTR:
\* control falls through to the three updates with ret = -1
read_fully_eintr(r) ==
  [r EXCEPT !.nread = @ + (-1), !.length = @ - (-1), !.buf = @ + (-1), !.clean = FALSE]

\* one hdfsRead of hdfsReadFully, and the code up to the next call
hdfsRead ==
  /\ pc = "hdfsRead"
  /\ \/ \E n \in ReadSizes(rf.length, Avail), junk \in JunkSums :
          \* a write before the start of the buffer is undefined: it goes unnoticed,
          \* damages the heap, or the process dies of it
          \E ub \in IF rf.buf < 0 /\ n > 0 THEN {"unnoticed", "heap", "dies"} ELSE {"none"} :
            LET short == n < rf.length /\ n < Avail
                r == read_fully_got(rf, n)
                s == [Run EXCEPT
                        !.log = Append(@, EvGot("hdfsRead", n)),
                        !.fpos = @ + n,
                        !.rf = r,
                        !.glitches = IF short THEN @ + 1 ELSE @,
                        !.heapOK = IF ub = "heap" THEN FALSE ELSE @]
            IN  /\ junk = 0 \/ (~(r.clean /\ r.start % NORMAL_READ_CHUNK_SIZE = 0)
                                /\ r.nread = NORMAL_READ_CHUNK_SIZE /\ r.length <= 0)
                /\ Become(IF ub = "dies" THEN [s EXCEPT !.pc = "crashed"]
                          ELSE IF n # 0 /\ r.length > 0 THEN s
                          ELSE normal_loop_after(s, r, r.nread, junk))
     \/ /\ glitches < MaxGlitches
        /\ Become([Run EXCEPT
                     !.log = Append(@, EvEintr("hdfsRead")),
                     !.errno = EINTR,
                     !.glitches = @ + 1,
                     !.rf = read_fully_eintr(rf)])
     \/ Become(normal_loop_after([Logged(Run, "hdfsRead", FALSE) EXCEPT !.errno = EIO],
                                 rf, -1, 0))

\* hdfsSeek(tdata->fs, tdata->file, 0) at the end of a pass, its result unused, and
\* the step of the for loop of vecsum_libhdfs or vecsum_zcr
hdfsSeek ==
  /\ pc = "hdfsSeek"
  /\ \E ok \in BOOLEAN :
       LET s == [Logged(Run, "hdfsSeek", ok) EXCEPT
                   !.fpos = IF ok THEN 0 ELSE @,
                   !.errno = IF ok THEN @ ELSE EIO,
                   !.pass = @ + 1]
       IN  Become(IF s.pass < opts.passes
                  THEN IF opts.ty = VECSUM_LIBHDFS THEN start_normal_loop(s)
                       ELSE [s EXCEPT !.sum = 0, !.cur = NoCur, !.pc = "hadoopReadZero"]
                  ELSE IF opts.ty = VECSUM_LIBHDFS THEN main_after_vecsum(s, 0)
                       ELSE main_after_vecsum(
                              [Logged(s, "hadoopRzOptionsFree", TRUE) EXCEPT !.zopts = FALSE],
                              0))

(***************************************************************************)
(* The zcr strategy: vecsum_zcr, vecsum_zcr_loop.                          *)
(***************************************************************************)
\* vecsum_zcr(): from its done label on, returning r to main()
zcr_done(s, r) ==
  main_after_vecsum(IF s.zopts
                    THEN [Logged(s, "hadoopRzOptionsFree", TRUE) EXCEPT !.zopts = FALSE]
                    ELSE s,
                    r)

\* vecsum_zcr(): vecsum_zcr_loop has returned r # 0
zcr_failed(s, r) == zcr_done(Said(s, "vecsum_zcr_loop failed"), r)

\* vecsum_zcr(): the three hadoopRzOptions calls before the passes
vecsum_zcr ==
  /\ pc = "vecsum_zcr"
  /\ \E outcome \in {"ok", "Alloc", "SetSkipChecksum", "SetByteBufferPool"} :
       LET a == Logged(Run, "hadoopRzOptionsAlloc", outcome # "Alloc")
       IN  Become(
             IF outcome = "Alloc"
             THEN zcr_done(Said(a, "hadoopRzOptionsAlloc failed"), ENOMEM)
             ELSE IF outcome = "SetSkipChecksum"
             THEN zcr_done(Said([Logged(a, "hadoopRzOptionsSetSkipChecksum", FALSE)
                                   EXCEPT !.zopts = TRUE, !.errno = EIO],
                                "hadoopRzOptionsSetSkipChecksum failed"), EIO)
             ELSE IF outcome = "SetByteBufferPool"
             THEN zcr_done(Said([Logged(a, "hadoopRzOptionsSetByteBufferPool", FALSE)
                                   EXCEPT !.zopts = TRUE, !.errno = EIO],
                                "hadoopRzOptionsSetByteBufferPool failed"), EIO)
             ELSE [a EXCEPT !.zopts = TRUE, !.pass = 0, !.sum = 0, !.cur = NoCur,
                            !.pc = "hadoopReadZero"])

\* a done label of vecsum_zcr_loop() that frees nothing
zcr_loop_done_leaks(s, rzbuf) == s

\* vecsum_zcr_loop(): its done label, if (rzbuf) hadoopRzBufferFree(...)
zcr_loop_done(s, rzbuf) ==
  IF rzbuf THEN Logged(s, "hadoopRzBufferFree", TRUE) ELSE s

\* a test of the returned length that lets every length through
zcr_partial_never(len) == FALSE

\* vecsum_zcr_loop(): len < ZCR_READ_CHUNK_SIZE
zcr_partial(len) == len < ZCR_READ_CHUNK_SIZE

\* vecsum_zcr_loop(): one hadoopReadZero and the code up to the next call
hadoopReadZero ==
  /\ pc = "hadoopReadZero"
  /\ \/ \E len \in ReadSizes(ZCR_READ_CHUNK_SIZE, Avail) :
          LET buf == [good |-> fpos % ZCR_READ_CHUNK_SIZE = 0,
                      chunk |-> fpos \div ZCR_READ_CHUNK_SIZE, junk |-> 0]
              n == ZCR_READ_CHUNK_SIZE \div SizeofDouble
              s == [Run EXCEPT
                      !.log = Append(@, EvGot("hadoopReadZero", len)),
                      !.fpos = @ + len,
                      !.glitches = IF len # 0 /\ len < ZCR_READ_CHUNK_SIZE THEN @ + 1 ELSE @]
          IN  Become(
                IF len = 0
                \* hadoopRzBufferGet returns NULL: the end of the file
                THEN [zcr_loop_done(finished_pass(s), TRUE) EXCEPT !.pc = "hdfsSeek"]
                ELSE IF zcr_partial(len)
                THEN zcr_failed(zcr_loop_done(Said(s, "hadoopReadZero got a partial read"),
                                              TRUE), EINVAL)
                ELSE [s EXCEPT
                        !.log = @ \o <<EvGot("vecsum", n), Ev("hadoopRzBufferFree", TRUE)>>,
                        !.sum = @ + vecsum(buf, n),
                        !.cur = Reduced(@, buf, n)])
     \* hadoopReadZero returns NULL, which is what rzbuf holds at the done label
     \/ Become(zcr_failed(zcr_loop_done(Said([Logged(Run, "hadoopReadZero", FALSE)
                                                EXCEPT !.errno = EIO],
                                             "hadoopReadZero failed"), FALSE), EIO))

(***************************************************************************)
(* The local strategy: vecsum_local.                                       *)
(***************************************************************************)
\* vecsum_local(): from its done label on, returning r to main()
local_done(s, r) ==
  LET u == IF s.lv.addr THEN Logged(s, "munmap", TRUE) ELSE s
      c == IF s.lv.fd THEN Logged(u, "close", TRUE) ELSE u
  IN  main_after_vecsum([c EXCEPT !.lv.addr = FALSE, !.lv.fd = FALSE], r)

\* (int)(length / sizeof(double)): the low 32 bits, as a signed int, of the number of
\* doubles in length bytes.  2^32 doubles are 4096 chunks and 2^31 are 2048
local_num_doubles(length) ==
  LET q == length[1] % 4096
      low == length[2] \div SizeofDouble
  IN  IF q >= 2048 THEN (q - 4096) * DoublesPerChunk + low
      ELSE q * DoublesPerChunk + low

\* vecsum_local(): open
vecsum_local_open ==
  /\ pc = "vecsum_local"
  /\ \E found \in BOOLEAN :
       \* no file has the empty path
       LET ok == found /\ opts.path.str # <<>>
           s == Logged(Run, "open", ok)
       IN  Become(IF ok THEN [s EXCEPT !.lv = [NoLocal EXCEPT !.fd = TRUE], !.pc = "fstat"]
                  ELSE local_done(Said([s EXCEPT !.errno = EIO, !.lv = NoLocal],
                                       "vecsum_local: failed to open"), EIO))

\* vecsum_local(): fstat and the test of the size
vecsum_local_fstat ==
  /\ pc = "fstat"
  /\ \E ok \in BOOLEAN :
       LET s == Logged(Run, "fstat", ok)
       IN  Become(IF ~ok
                  THEN local_done(Said([s EXCEPT !.errno = EIO], "vecsum_local: fstat failed"),
                                  EIO)
                  ELSE IF unaligned(mSize)
                  THEN local_done(Said([s EXCEPT !.lv.length = mSize],
                                       "vecsum_local: size is not aligned"), EINVAL)
                  ELSE [s EXCEPT !.lv.length = mSize, !.pc = "mmap"])

\* vecsum_local(): mmap of the whole file
vecsum_local_mmap ==
  /\ pc = "mmap"
  /\ \E granted \in BOOLEAN :
       \* mmap fails with EINVAL when the length is 0
       LET ok == granted /\ lv.length # W(0, 0)
           s == Logged(Run, "mmap", ok)
       IN  Become(IF ok THEN [s EXCEPT !.lv.addr = TRUE, !.pass = 0, !.pc = "local_pass"]
                  ELSE local_done(Said([s EXCEPT !.errno = IF granted THEN EINVAL ELSE ENOMEM],
                                       "vecsum_local: mmap failed"), EIO))

\* vecsum_local(): one pass over the mapping
vecsum_local_pass ==
  /\ pc = "local_pass"
  /\ LET buf == [good |-> TRUE, chunk |-> 0, junk |-> 0]
         n == local_num_doubles(lv.length)
         s == [Run EXCEPT
                 !.log = Append(@, EvGot("vecsum", n)),
                 !.sum = vecsum(buf, n),
                 !.cur = Reduced(NoCur, buf, n)]
         t == [finished_pass(s) EXCEPT !.pass = @ + 1]
     IN  Become(IF t.pass < opts.passes THEN t ELSE local_done(t, 0))

(***************************************************************************)
(* The end of main(): the report and the release of what main() holds.     *)
(***************************************************************************)
\* what stat(opts->path) may answer when vecsum_length asks: the path is looked up
\* again, after the passes
StatAnswers ==
  {[ok |-> FALSE, size |-> W(0, 0)], [ok |-> TRUE, size |-> mSize],
   [ok |-> TRUE, size |-> W(mSize[1] + 1, mSize[2])]}

\* vecsum_length(opts, tdata) when stat answers st; -EIO is <<-1, VECSUM_CHUNK_SIZE - EIO>>
vecsum_length(o, t, st) ==
  IF o.ty = VECSUM_LOCAL
  THEN IF ~st.ok THEN W(-1, VECSUM_CHUNK_SIZE - EIO) ELSE st.size
  ELSE t.length

\* main() at its done label: the report
main_report ==
  /\ pc = "done"
  /\ IF watch = "running" /\ ret = 0
     THEN \E st \in IF opts.ty = VECSUM_LOCAL THEN StatAnswers
                    ELSE {[ok |-> TRUE, size |-> mSize]} :
            LET length == vecsum_length(opts, tdata, st)
                s == IF opts.ty = VECSUM_LOCAL THEN Logged(Run, "stat", st.ok) ELSE Run
            IN  IF length[1] >= 0
                \* stopwatch_stop(watch, length * opts->passes)
                THEN \E clock_ok \in BOOLEAN :
                       Become([Logged(s, "stopwatch_stop", clock_ok) EXCEPT
                                 !.report = IF clock_ok
                                            THEN Append(@, WMul(length, opts.passes))
                                            ELSE @,
                                 !.watch = "freed",
                                 !.pc = "cleanup"])
                ELSE Become([Said(s, "vecsum_length: stat failed") EXCEPT !.pc = "cleanup"])
     ELSE Become([Run EXCEPT !.pc = "cleanup"])

\* main() after the report: test_data_free, options_free, return ret
main_cleanup ==
  /\ pc = "cleanup"
  \* free() of a buffer whose heap header was written over may abort the process
  /\ \E aborts \in IF ~tdata.isNull /\ tdata.buf /\ ~heapOK THEN BOOLEAN ELSE {FALSE} :
       \* opts and tdata keep their values for the properties below: the storage
       \* they point to is released here
       Become(IF aborts THEN [Run EXCEPT !.pc = "crashed"]
              ELSE [Run EXCEPT !.log = IF tdata.isNull THEN @ ELSE @ \o test_data_free(tdata),
                               !.pc = "exited"])

Next ==
  \/ main_check_byte_size
  \/ options_create
  \/ test_data_create
  \/ hdfsBuilderConnect
  \/ hdfsGetPathInfo
  \/ hdfsOpenFile
  \/ stopwatch_create
  \/ vecsum_libhdfs
  \/ hdfsRead
  \/ hdfsSeek
  \/ vecsum_zcr
  \/ hadoopReadZero
  \/ vecsum_local_open
  \/ vecsum_local_fstat
  \/ vecsum_local_mmap
  \/ vecsum_local_pass
  \/ main_report
  \/ main_cleanup

Spec == Init /\ [][Next]_vars

(***************************************************************************)
(* Properties.                                                             *)
(***************************************************************************)
\* how many times op has been called with outcome ok
Count(op, ok) == Cardinality({i \in DOMAIN log : log[i] = Ev(op, ok)})

\* op has been called, with whatever outcome
Called(op) == \E i \in DOMAIN log : log[i].op = op

\* some call has reported an error
SomeCallFailed == \E i \in DOMAIN log : ~log[i].ok

Said_(msg) == \E i \in DOMAIN errs : errs[i] = msg

\* the calls that read the target, and the calls that acquire and release
ReadOps == {"hdfsRead", "hadoopReadZero"}

AcquireOps ==
  {"hdfsBuilderConnect", "hdfsGetPathInfo", "hdfsOpenFile", "open", "fstat", "mmap"}

SetupOps == AcquireOps \cup {"malloc", "hadoopRzOptionsAlloc"}

TeardownOps ==
  {"munmap", "close", "free", "hdfsCloseFile", "hdfsDisconnect", "hadoopRzOptionsFree"}

\* each resource of C1 as <<the call that acquires it, the call that releases it>>
Resources ==
  {<<"hdfsBuilderConnect", "hdfsDisconnect">>, <<"hdfsOpenFile", "hdfsCloseFile">>,
   <<"open", "close">>, <<"mmap", "munmap">>, <<"malloc", "free">>}

\* the length of the target the passes go over: what was mapped, or what
\* test_data_create stored
LengthAtOpen == IF opts.ty = VECSUM_LOCAL THEN lv.length ELSE tdata.length

\* C1: at every moment no resource (HDFS connection, HDFS file, local file
\* descriptor, mapping, read buffer) has been released more often than it was
\* acquired, none is acquired twice, and when main() returns, with success or with
\* any error, each one acquired has been released exactly once.  (A process that
\* dies of a signal returns from nothing and is no exit path of main().)
C1_ReleasedExactlyOnce ==
  \A r \in Resources :
    /\ Count(r[2], TRUE) <= Count(r[1], TRUE)
    /\ Count(r[1], TRUE) <= 1
    /\ pc = "exited" => Count(r[2], TRUE) = Count(r[1], TRUE)

\* C1 witness: a run that failed after it had connected, opened the file and
\* allocated the buffer has returned from main()
C1_Witness ==
  /\ pc = "exited"
  /\ ret # 0
  /\ Count("hdfsDisconnect", TRUE) = 1
  /\ Count("hdfsCloseFile", TRUE) = 1
  /\ Count("free", TRUE) = 1

\* C3: a target whose length is no multiple of the chunk size is never read,
\* mapped or reduced, produces no pass line and no report, makes main() return
\* non-zero, and, once its size has been looked up, has been refused with the
\* diagnostic of the alignment test, before hdfsOpenFile or mmap
C3_UnalignedRejected ==
  mSize[2] # 0 =>
    /\ ~Called("hdfsRead") /\ ~Called("hadoopReadZero") /\ ~Called("vecsum")
    /\ ~Called("hdfsOpenFile") /\ ~Called("mmap")
    /\ passLines = <<>> /\ report = <<>>
    /\ pc = "exited" => ret # 0
    /\ Count("hdfsGetPathInfo", TRUE) = 1 /\ pc # "hdfsGetPathInfo"
         => Said_("size is not aligned")
    /\ Count("fstat", TRUE) = 1 /\ pc # "fstat"
         => Said_("vecsum_local: size is not aligned") /\ ret = EINVAL

\* C3 witness: the size of an unaligned target was looked up and the run has ended
C3_Witness ==
  /\ pc = "exited"
  /\ mSize = W(1, 1)
  /\ Said_("size is not aligned")

\* the validation rules as the specification states them: the path is set and not
\* empty, the pass count is a positive integer (digits only), the type is one of
\* the three names in any case
SpecValid(e) ==
  /\ ~e.VECSUM_PATH.isNull /\ e.VECSUM_PATH.str # <<>>
  /\ ~e.VECSUM_PASSES.isNull
  /\ e.VECSUM_PASSES.str # <<>>
  /\ \A i \in DOMAIN e.VECSUM_PASSES.str : IsDigit(e.VECSUM_PASSES.str[i])
  /\ atoi(e.VECSUM_PASSES.str) > 0
  /\ ~e.VECSUM_TYPE.isNull /\ parse_vecsum_type(e.VECSUM_TYPE.str) >= 0

\* C2: main() returns 0 exactly when the configuration was valid, the target was
\* opened, all the passes were completed and no call reported an error
C2_ExitZeroIffSuccess ==
  pc = "exited" =>
    (ret = 0 <=> /\ SpecValid(env)
                 /\ ~opts.isNull
                 /\ Len(passLines) = opts.passes
                 /\ ~SomeCallFailed)

\* C4: in a run that has ended with success every pass reported as finished has
\* handed to the reducer exactly as many bytes as the length of the target found
\* when it was opened
C4_PassCoversTarget ==
  pc = "exited" /\ ret = 0 =>
    \A k \in DOMAIN passLines : WOfDoubles(passLines[k].doubles) = LengthAtOpen

\* C5: once a call has reported an error no read, seek or reduce follows it.  (An
\* hdfsRead that fails with EINTR, which hdfsReadFully is written to repeat, is not
\* taken for an error here; the exit status is the subject of C2.)
C5_ErrorAborts ==
  \A i, j \in DOMAIN log :
    i < j /\ ~log[i].ok /\ ~log[i].eintr
      => log[j].op \notin ReadOps \cup {"hdfsSeek", "vecsum"}

\* the stopwatch is running when call i of the log is made
Timed(i) ==
  /\ \E a \in 1..(i - 1) : log[a] = Ev("stopwatch_create", TRUE)
  /\ \A b \in 1..(i - 1) : log[b].op # "stopwatch_stop"

\* C6: in a successful run every read and every reduce lies between the start and
\* the stop of the stopwatch, and no call that sets up or tears down does
C6_TimedRegion ==
  pc = "exited" /\ ret = 0 =>
    \A i \in DOMAIN log :
      /\ log[i].op \in ReadOps \cup {"vecsum"} => Timed(i)
      /\ log[i].op \in SetupOps \cup TeardownOps => ~Timed(i)

\* C7: at most one report is written, only when all the passes were completed and
\* no call had reported an error, and its byte total is the length of the target
\* the passes went over times the number of passes
C7_ReportOnce ==
  /\ Len(report) <= 1
  /\ report # <<>> =>
       /\ Len(passLines) = opts.passes
       /\ \A i \in DOMAIN log : log[i].ok
       /\ report[1] = WMul(LengthAtOpen, opts.passes)

\* C8: with run parameters that break a validation rule, options_create returns
\* NULL, no call that acquires a resource is made, and main() returns non-zero
C8_InvalidConfigRejected ==
  ~SpecValid(env) =>
    /\ pc \notin {"main", "options_create"} => opts.isNull
    /\ \A i \in DOMAIN log : log[i].op \notin AcquireOps
    /\ pc = "exited" => ret # 0

\* C9: a target of length zero is refused with the diagnostic for an empty file
\* once its size has been looked up, and is never mapped, read or reduced
C9_EmptyRejected ==
  mSize = W(0, 0) =>
    /\ ~Called("mmap") /\ ~Called("hdfsRead") /\ ~Called("hadoopReadZero")
    /\ ~Called("vecsum")
    /\ (Count("hdfsGetPathInfo", TRUE) = 1 /\ pc # "hdfsGetPathInfo")
         \/ (Count("fstat", TRUE) = 1 /\ pc # "fstat")
         => Said_("file has size 0")

\* C10: every finished pass has gone over the same chunks as the first one, from
\* offset 0, and has the same sum
C10_PassesRepeat ==
  \A k \in DOMAIN passLines :
    /\ passLines[k].chunks = passLines[1].chunks
    /\ passLines[k].sum = passLines[1].sum

\* C11: whatever the strategy, the first finished pass has handed every chunk of the
\* target to the reducer exactly once, in order, and its sum is the sum of the whole
\* target: the same value for the three strategies
C11_SamePassZero ==
  passLines # <<>> =>
    /\ passLines[1].chunks = ChunkSeq(0, LengthAtOpen[1])
    /\ passLines[1].doubles = LengthAtOpen[1] * DoublesPerChunk
    /\ passLines[1].sum = SumChunks(0, LengthAtOpen[1])

\* a hadoopReadZero that returned data, but less than was asked for
PartialZcr(i) ==
  /\ log[i].op = "hadoopReadZero" /\ log[i].ok
  /\ 0 < log[i].n /\ log[i].n < ZCR_READ_CHUNK_SIZE

\* C12: in a zcr run the reducer is called only right after a hadoopReadZero that
\* returned exactly ZCR_READ_CHUNK_SIZE bytes; a shorter chunk with data is followed
\* by no read, seek or reduce, by no line for the running pass and by a non-zero
\* exit; and a pass is reported finished only at a chunk with no data
C12_ZcrFullChunksOnly ==
  ~opts.isNull /\ opts.ty = VECSUM_ZCR =>
    /\ \A i \in DOMAIN log :
         log[i].op = "vecsum" =>
           i > 1 /\ log[i - 1] = EvGot("hadoopReadZero", ZCR_READ_CHUNK_SIZE)
    /\ \A i \in DOMAIN log :
         PartialZcr(i) =>
           /\ \A j \in DOMAIN log :
                j > i => log[j].op \notin ReadOps \cup {"hdfsSeek", "vecsum"}
           /\ \A k \in DOMAIN passLines : passLines[k].pass # pass
           /\ Said_("hadoopReadZero got a partial read")
           /\ ret # 0 \/ pc \notin {"done", "cleanup", "exited"}
           /\ report = <<>>
    /\ Len(passLines)
         = Cardinality({i \in DOMAIN log : log[i] = EvGot("hadoopReadZero", 0)})

\* C12 witness: a zcr run that met a short chunk after a full one has ended
C12_Witness ==
  /\ pc = "exited"
  /\ opts.ty = VECSUM_ZCR
  /\ Called("vecsum")
  /\ \E i \in DOMAIN log : PartialZcr(i)

\* C13: in a libhdfs run every buffer handed to the reducer holds one whole block of
\* consecutive bytes of the target from the buffer's first byte on; a block that
\* came back short makes main() return non-zero
C13_StreamFullBlocksOnly ==
  ~opts.isNull /\ opts.ty = VECSUM_LIBHDFS =>
    /\ \A k \in DOMAIN cur.chunks : cur.chunks[k] >= 0
    /\ \A k \in DOMAIN passLines :
         \A c \in DOMAIN passLines[k].chunks : passLines[k].chunks[c] >= 0
    /\ Said_("hdfsRead got a partial read") =>
         ret = EINVAL \/ pc \notin {"done", "cleanup", "exited"}

\* C14: while hdfsReadFully runs, the bytes read stay within 0 .. the length asked
\* for, the bytes read and the bytes still wanted add up to that length, the bytes
\* still wanted never exceed it, and the next hdfsRead is aimed at a range inside
\* the caller's buffer; so an EINTR failure has changed none of the three cursors
C14_ReadFullyCursors ==
  pc = "hdfsRead" =>
    /\ 0 <= rf.nread /\ rf.nread <= NORMAL_READ_CHUNK_SIZE
    /\ rf.nread + rf.length = NORMAL_READ_CHUNK_SIZE
    /\ rf.length <= NORMAL_READ_CHUNK_SIZE
    /\ 0 <= rf.buf /\ rf.buf + rf.length <= NORMAL_READ_CHUNK_SIZE

\* call i of the log is a hadoopReadZero that returned a buffer
GotRzBuffer(i) == log[i].op = "hadoopReadZero" /\ log[i].ok

\* the buffers obtained and not yet released after the first k calls of the log
RzOutstanding(k) ==
  Cardinality({i \in 1..k : GotRzBuffer(i)})
    - Cardinality({i \in 1..k : log[i].op = "hadoopRzBufferFree"})

\* C15: at every point of a run the buffers obtained from hadoopReadZero and not
\* yet released number 0 or 1; every release follows the hadoopReadZero that
\* returned the buffer, with nothing between them but the reducer call on that
\* buffer, and the reducer is never called after the release; and when the loop
\* is between two reads or has returned, no buffer is outstanding
C15_RzBufferReleasedOnce ==
  /\ \A k \in 0..Len(log) : RzOutstanding(k) \in {0, 1}
  /\ RzOutstanding(Len(log)) = 0
  /\ \A j \in DOMAIN log :
       log[j].op = "hadoopRzBufferFree" =>
         /\ j > 1
         /\ \/ GotRzBuffer(j - 1)
            \/ log[j - 1].op = "vecsum" /\ j > 2 /\ GotRzBuffer(j - 2)
  /\ \A i \in DOMAIN log :
       GotRzBuffer(i) /\ i < Len(log) =>
         log[i + 1].op \in {"vecsum", "hadoopRzBufferFree"}

\* C15 witness: a zcr run has ended after a pass that reduced a chunk and met the
\* end of the file, and a later one that was cut short by a failed read
C15_Witness ==
  /\ pc = "exited"
  /\ Called("vecsum")
  /\ passLines # <<>>
  /\ Count("hadoopReadZero", FALSE) = 1
  /\ Count("hadoopRzBufferFree", TRUE) >= 2

\* C19: every call of the reducer is given a number of doubles that is positive, a
\* multiple of DOUBLES_PER_LOOP_ITER, and the byte length of the data handed to it
\* (the mapping, or one chunk) divided by sizeof(double)
C19_ReducerCount ==
  \A i \in DOMAIN log :
    log[i].op = "vecsum" =>
      /\ log[i].n > 0
      /\ log[i].n % DOUBLES_PER_LOOP_ITER = 0
      /\ WOfDoubles(log[i].n) = IF opts.ty = VECSUM_LOCAL THEN lv.length ELSE W(1, 0)

(***************************************************************************)
(* The record reader of the ByteCount job: ByteBufferRecordReader.         *)
(***************************************************************************)
\* the longest file the reader is given
MaxFileLen == 3

\* the ways a DFSInputStream gets bytes.  Its ReadStatistics counts a zero-copy
\* read as a short-circuit read and a short-circuit read as a local read too
Tiers == {"remote", "local", "scr", "zcr"}

\* the ReadStatistics of a stream after n more bytes were read in the way tier
AddBytes(st, tier, n) ==
  [total |-> st.total + n,
   local |-> IF tier \in {"local", "scr", "zcr"} THEN st.local + n ELSE st.local,
   scr |-> IF tier \in {"scr", "zcr"} THEN st.scr + n ELSE st.scr,
   zcr |-> IF tier = "zcr" THEN st.zcr + n ELSE st.zcr]

\* newStats - readStats, counter by counter
StatsDelta(newStats, oldStats) ==
  [total |-> newStats.total - oldStats.total, local |-> newStats.local - oldStats.local,
   scr |-> newStats.scr - oldStats.scr, zcr |-> newStats.zcr - oldStats.zcr]

\* an updateStats that forgets to keep the new snapshot
updateStats_keeps_old(x, newStats) ==
  LET d == StatsDelta(newStats, x.reader.readStats)
  IN  [x EXCEPT
         !.hadoop.counters = [total |-> @.total + d.total, local |-> @.local + d.local,
                              scr |-> @.scr + d.scr, zcr |-> @.zcr + d.zcr],
         !.hadoop.delta = d]

\* updateStats(newStats) on x = [reader, hadoop]
updateStats(x, newStats) ==
  LET d == StatsDelta(newStats, x.reader.readStats)
  IN  [x EXCEPT
         !.hadoop.counters = [total |-> @.total + d.total, local |-> @.local + d.local,
                              scr |-> @.scr + d.scr, zcr |-> @.zcr + d.zcr],
         !.hadoop.delta = d,
         !.reader.readStats = newStats]

\* (int)(end - start), the length nextKeyValue() asks for on every call
request(r) == r.end - r.start

\* the pooled branch of nextKeyValue(): fsIn.read(bufferPool, ...) delivers n bytes
\* read in the way tier
nextKeyValue_pooled(x, n, tier) ==
  LET id == x.hadoop.handed + 1
      a == [x EXCEPT
              !.hadoop.asked = x.hadoop.spos + request(x.reader),
              !.hadoop.handed = id,
              !.hadoop.out = @ \cup {id},
              !.hadoop.spos = @ + n,
              !.hadoop.stats = IF x.hadoop.isDfs THEN AddBytes(@, tier, n) ELSE @,
              !.reader.pos = @ + n]
      b == IF a.hadoop.isDfs THEN updateStats(a, a.hadoop.stats) ELSE a
      c == IF b.reader.value > 0
           THEN [b EXCEPT !.hadoop.out = @ \ {b.reader.value},
                          !.hadoop.released = Append(@, b.reader.value)]
           ELSE b
  IN  [c EXCEPT !.reader.value = id, !.reader.last = IF n > 0 THEN "true" ELSE "false"]

\* the byte[] branch of nextKeyValue(): IOUtils.readFully of end - start bytes
nextKeyValue_copy(x) ==
  LET len == x.reader.end - x.reader.start
      a == [x EXCEPT !.hadoop.asked = x.hadoop.spos + len]
  IN  IF x.hadoop.flen - x.hadoop.spos < len
      THEN [a EXCEPT !.hadoop.spos = x.hadoop.flen, !.reader.last = "threw"]
      ELSE [a EXCEPT !.hadoop.spos = @ + len,
                     !.reader.pos = @ + len,
                     !.reader.value = -1,
                     !.reader.last = IF len > 0 THEN "true" ELSE "false"]

\* the splits initialize() may be given for a file of length flen
Splits(flen) ==
  {sp \in [start : 0..MaxFileLen, length : 0..MaxFileLen] : sp.start + sp.length <= flen}

ReaderInit ==
  /\ env = [VECSUM_PATH |-> NULLSTR, VECSUM_PASSES |-> NULLSTR,
            VECSUM_TYPE |-> NULLSTR, VECSUM_RPC_ADDRESS |-> NULLSTR]
  /\ mSize = W(0, 0)
  /\ pc = "reader"
  /\ opts = NoOpts
  /\ tdata = NoTdata
  /\ watch = "null"
  /\ ret = 0
  /\ errno = 0
  /\ fpos = 0
  /\ rf = NoRead
  /\ pass = 0
  /\ sum = 0
  /\ lv = NoLocal
  /\ zopts = FALSE
  /\ heapOK = TRUE
  /\ glitches = 0
  /\ cur = NoCur
  /\ log = <<>>
  /\ errs = <<>>
  /\ passLines = <<>>
  /\ report = <<>>
  /\ reader = NoReader
  /\ \E flen \in 0..MaxFileLen, isDfs \in BOOLEAN :
       hadoop = [NoHadoop EXCEPT !.flen = flen, !.isDfs = isDfs]

\* initialize(job, splitStart, splitLength, file)
initialize ==
  /\ reader.last = "new"
  /\ \E sp \in Splits(hadoop.flen), codec \in BOOLEAN, opened \in BOOLEAN :
       IF ~opened
       THEN /\ reader' = [reader EXCEPT !.start = sp.start, !.end = sp.start + sp.length,
                                        !.pos = sp.start, !.last = "threw"]
            /\ hadoop' = hadoop
       ELSE /\ reader' = [reader EXCEPT
                            !.start = sp.start, !.end = sp.start + sp.length,
                            !.pos = sp.start,
                            !.isCompressedInput = codec,
                            !.decompressor = codec,
                            !.inputStream = IF codec THEN "CompressionInputStream"
                                            ELSE "FSDataInputStream",
                            !.last = "initialized"]
            /\ hadoop' = [hadoop EXCEPT !.isOpen = TRUE,
                                        !.spos = IF codec THEN 0 ELSE sp.start]
  /\ UNCHANGED vecsumVars

\* nextKeyValue()
nextKeyValue ==
  /\ reader.last \in {"initialized", "true", "false"}
  /\ LET x == [reader |-> reader, hadoop |-> hadoop]
     IN  IF reader.pos >= reader.end
         THEN /\ reader' = [reader EXCEPT !.last = "false"]
              /\ hadoop' = hadoop
         ELSE IF reader.inputStream = "FSDataInputStream"
         THEN IF hadoop.flen - hadoop.spos <= 0
              \* read() returns null at the end of the file
              THEN /\ reader' = [reader EXCEPT !.last = "threw"]
                   /\ hadoop' = hadoop
              ELSE \E n \in 1..request(reader), tier \in Tiers :
                     /\ n <= hadoop.flen - hadoop.spos
                     /\ reader' = nextKeyValue_pooled(x, n, tier).reader
                     /\ hadoop' = nextKeyValue_pooled(x, n, tier).hadoop
         ELSE /\ reader' = nextKeyValue_copy(x).reader
              /\ hadoop' = nextKeyValue_copy(x).hadoop
  /\ UNCHANGED vecsumVars

\* close(): the stream is closed and the decompressor returned; the buffer that
\* value holds is not touched
close ==
  /\ reader.last \in {"initialized", "true", "false", "threw"}
  /\ reader.inputStream # "null" \/ reader.decompressor
  /\ \E throws \in BOOLEAN :
       LET x == [reader |-> reader, hadoop |-> hadoop]
       IN  /\ throws => reader.inputStream # "null"
           /\ reader' = [x.reader EXCEPT
                           !.inputStream = IF throws THEN @ ELSE "null",
                           !.decompressor = FALSE,
                           !.last = "closed"]
           /\ hadoop' = [x.hadoop EXCEPT
                           !.isOpen = IF reader.inputStream # "null" THEN FALSE ELSE @]
  /\ UNCHANGED vecsumVars

ReaderNext ==
  \/ initialize
  \/ nextKeyValue
  \/ close

ReaderSpec == ReaderInit /\ [][ReaderNext]_vars

\* C16: after any number of statistics updates each counter of the task equals the
\* latest snapshot of the stream's statistics (the baseline being 0): nothing is
\* counted twice or lost, and a counter whose snapshot did not move got nothing
C16_CountersTelescope ==
  /\ hadoop.counters = reader.readStats
  /\ hadoop.isDfs => hadoop.counters = hadoop.stats
  /\ ~hadoop.isDfs => hadoop.counters = NoStats

\* C16 witness: two updates were folded, the second by a remote read, which left the
\* snapshots of the three tier counters where they were
C16_Witness ==
  /\ hadoop.isDfs
  /\ hadoop.handed = 2
  /\ hadoop.counters = [total |-> 2, local |-> 1, scr |-> 1, zcr |-> 1]
  /\ hadoop.delta = [total |-> 1, local |-> 0, scr |-> 0, zcr |-> 0]

\* C17: no statistics update adds a negative amount to a counter, and what the
\* updates add to the three tier counters together is never more than what they
\* add to BYTES_READ
C17_DeltasWithinTotal ==
  /\ hadoop.delta.total >= 0 /\ hadoop.delta.local >= 0
  /\ hadoop.delta.scr >= 0 /\ hadoop.delta.zcr >= 0
  /\ hadoop.delta.local + hadoop.delta.scr + hadoop.delta.zcr <= hadoop.delta.total
  /\ hadoop.counters.local + hadoop.counters.scr + hadoop.counters.zcr
       <= hadoop.counters.total

\* C18: once close() has been called no buffer of the pool is checked out, and
\* every buffer the pool handed out has been given back exactly once
C18_NoBufferOutAfterClose ==
  reader.last = "closed" =>
    /\ hadoop.out = {}
    /\ \A id \in 1..hadoop.handed :
         Cardinality({k \in DOMAIN hadoop.released : hadoop.released[k] = id}) = 1

\* C20: after initialize() and after every nextKeyValue(), start <= pos <= end, and
\* no read of the file has asked for bytes past the end of the split
C20_PosWithinSplit ==
  reader.last \in {"initialized", "true", "false"} =>
    /\ reader.start <= reader.pos /\ reader.pos <= reader.end
    /\ ~reader.isCompressedInput => hadoop.asked <= reader.end

\* no hdfsSeek is among calls i .. j of the log: they belong to one pass
SamePass(i, j) == \A k \in i..j : log[k].op # "hdfsSeek"

\* C21: a run stops nowhere but at the return of main(), with success or with an
\* error; within one pass of the libhdfs or zcr strategy at most length / chunk size
\* chunks are reduced and at most one read meets the end of the file; and a run
\* that ends with success has finished exactly opts->passes passes
C21_RunTerminates ==
  /\ pc = "exited" \/ ENABLED Next
  /\ ~opts.isNull /\ opts.ty # VECSUM_LOCAL =>
       \A i, j \in DOMAIN log :
         i <= j /\ SamePass(i, j) =>
           /\ Cardinality({k \in i..j : log[k].op = "vecsum"}) <= mSize[1]
           /\ Cardinality({k \in i..j : log[k] = EvGot("hdfsRead", 0)
                                          \/ log[k] = EvGot("hadoopReadZero", 0)}) <= 1
  /\ pc = "exited" /\ ret = 0 => Len(passLines) = opts.passes

====
